---- MODULE Spec2Model ----
(***************************************************************************)
(* Model of SysInfo (src/main.rs): the 1-second timer closure of main,     *)
(* the SystemHistory rolling buffers it updates and the gather_* functions *)
(* that build the records handed to the UI.                                *)
(*                                                                         *)
(* Number representation.  f32 values are exact rationals <<n, d>> in      *)
(* lowest terms with d > 0; the inputs are chosen so that every f32        *)
(* operation of the program on them is exact (dyadic quotients, integers   *)
(* below 2^24).  Memory sizes are counted in MiB (2^20 bytes) because the  *)
(* byte counts of a multi-GiB machine exceed TLC's 32-bit integers; GIB   *)
(* is therefore 1024.  Network counters are bytes.                         *)
(***************************************************************************)
EXTENDS Integers, Sequences, FiniteSets, TLC

\* ------------------------------------------------------------- bounds ----
\* Length of the three history buffers (SystemHistory::new(60) in main).
HistSize == 3
\* Number of timer firings explored.
MaxTicks == 4
\* Longest address list returned by get_if_addrs() in SpecNet.
MaxAddrs == 2

\* ---------------------------------------------------------- constants ----
\* const GIB, expressed in MiB.
GIB == 1024
\* Bytes per MiB, the divisor of the "MB" columns.
MIB == 1048576

VARIABLES
  cpu_history, memory_history, net_history, last_rx, last_tx, \* SystemHistory
  sys,            \* sysinfo::System as last refreshed
  networks,       \* sysinfo::Networks as last refreshed, in iteration order
  if_addrs,       \* what get_if_addrs() returns, in enumeration order
  ui_alive,       \* ui_handle.upgrade() would return Some
  timer_running,  \* the repeated slint::Timer is started
  homeData, cpu_data, memory_data, network_data, process_data, \* UI properties
  ticks,          \* number of times the timer closure has run
  cpu_log, mem_log, \* samples read by the ticks that got past the upgrade
  net_pushes,     \* number of push_net calls so far
  last_obs        \* last_rx, last_tx as the latest full tick found them, and
                  \* whether that tick called push_net

vars == <<cpu_history, memory_history, net_history, last_rx, last_tx, sys,
          networks, if_addrs, ui_alive, timer_running, homeData, cpu_data,
          memory_data, network_data, process_data, ticks, cpu_log, mem_log,
          net_pushes, last_obs>>

hist_vars == <<cpu_history, memory_history, net_history, last_rx, last_tx>>
ui_vars == <<homeData, cpu_data, memory_data, network_data, process_data>>

\* ------------------------------------------------------- f32 helpers ----
RECURSIVE GCD(_, _)
GCD(a, b) == IF b = 0 THEN a ELSE GCD(b, a % b)

Abs(x) == IF x < 0 THEN 0 - x ELSE x

\* The rational n/d (d > 0) in lowest terms.
Rat(n, d) == IF n = 0 THEN <<0, 1>>
             ELSE LET g == GCD(Abs(n), d) IN <<n \div g, d \div g>>

Zero == <<0, 1>>
One == <<1, 1>>

RLeq(a, b) == a[1] * b[2] <= b[1] * a[2]

\* f32::max
F32Max(a, b) == IF RLeq(a, b) THEN b ELSE a

\* iter().copied().fold(0.0, f32::max)
RECURSIVE FoldMax(_)
FoldMax(s) == IF s = <<>> THEN Zero
              ELSE F32Max(FoldMax(SubSeq(s, 1, Len(s) - 1)), s[Len(s)])

\* .fold(0.0, f32::max).max(1.0): the y-axis maximum of a chart
ChartMaxNoClamp(s) == FoldMax(s)
ChartMax(s) == F32Max(FoldMax(s), One)

\* u64::saturating_sub
AbsDiff(a, b) == IF a >= b THEN a - b ELSE b - a
saturating_sub(a, b) == IF a >= b THEN a - b ELSE 0

\* f32::round of the non-negative n/d: nearest integer, ties away from zero
RoundDiv(n, d) == (2 * n + d) \div (2 * d)

\* (x * 100.0).round() / 100.0 for x = n/d
Round2(n, d) == Rat(RoundDiv(n * 100, d), 100)

\* format!("{:.1}", n/d) and format!("{:.2}", n/d), as tenths and hundredths
Format1(n, d) == RoundDiv(n * 10, d)
Format2(n, d) == RoundDiv(n * 100, d)

\* ----------------------------------------------------- SystemHistory ----
ZeroPoint == [upload |-> Zero, download |-> Zero]

\* vec![x; size]
Fill(x, size) == [i \in 1..size |-> x]

\* Vec::remove(0)
RemoveFirst(v) == Tail(v)

push_cpu_overwrite(h, v) == [h EXCEPT ![Len(h)] = v]
push_cpu(h, v) == Append(RemoveFirst(h), v)

push_mem_front(h, v) == <<v>> \o SubSeq(h, 1, Len(h) - 1)
push_mem(h, v) == Append(RemoveFirst(h), v)

push_net_keep(h, up, down) ==
  Append(h, [upload |-> up, download |-> down])
push_net(h, up, down) ==
  Append(RemoveFirst(h), [upload |-> up, download |-> down])

\* -------------------------------------------------- provider inputs ----
IfNames == <<"eth0", "wlan0">>

Mac(name) == IF name = "eth0" THEN "02:00:00:00:00:01" ELSE "02:00:00:00:00:02"

\* Installed memory of the host, in MiB (8 GiB and 1.5 GiB).
MemTotals == {8192, 1536}

\* What one refresh of System can read: <<global CPU usage, quarters of the
\* installed memory in use>>.
SysSamples == {<<Rat(1, 2), 1>>, <<Rat(50, 1), 2>>}

\* The process table (pid, name, cpu %, resident bytes); it is not re-drawn.
Processes == <<[pid |-> 1, name |-> "init", cpu_usage |-> Rat(0, 1),
                memory |-> 3 * MIB],
               [pid |-> 42, name |-> "sysinfo", cpu_usage |-> Rat(5, 4),
                memory |-> 10 * MIB + 104858]>>

\* What one refresh of Networks can read: per interface, in iteration
\* order, the cumulative <<received, transmitted>> byte counters.
NetSamples == { <<(<<0, 0>>), (<<0, 0>>)>>,
                <<(<<0, 0>>), (<<500, 200>>)>>,
                <<(<<0, 0>>), (<<1500, 250>>)>>,
                <<(<<100, 50>>), (<<0, 0>>)>>,
                <<(<<4096, 1024>>), (<<1500, 250>>)>> }

\* Networks::new_with_refreshed_list(): totals as read, nothing received or
\* transmitted since the (non-existent) previous refresh.
NewNetworks(sample) ==
  [i \in 1..Len(IfNames) |->
     [name |-> IfNames[i], mac |-> Mac(IfNames[i]),
      received |-> 0, transmitted |-> 0,
      total_received |-> sample[i][1], total_transmitted |-> sample[i][2]]]

\* Bytes counted between two reads of a cumulative counter.
Growth(now, before) == IF now >= before THEN now - before ELSE 0

\* networks.refresh(false): the totals become the counters just read, and
\* received()/transmitted() the growth since the previous refresh.
refresh_networks(nets, sample) ==
  [i \in 1..Len(nets) |->
     [nets[i] EXCEPT
        !.received = Growth(sample[i][1], nets[i].total_received),
        !.transmitted = Growth(sample[i][2], nets[i].total_transmitted),
        !.total_received = sample[i][1],
        !.total_transmitted = sample[i][2]]]

\* sys.refresh_cpu_all(); sys.refresh_memory(); sys.refresh_processes(..)
refresh_sys(s, sample) ==
  [s EXCEPT !.global_cpu_usage = sample[1],
            !.used_memory = (s.total_memory * sample[2]) \div 4]

\* for (_, data) in networks.iter() { total_rx += data.total_received(); .. }
RECURSIVE TotalRx(_)
TotalRx(nets) ==
  IF nets = <<>> THEN 0 ELSE Head(nets).total_received + TotalRx(Tail(nets))

RECURSIVE TotalTx(_)
TotalTx(nets) ==
  IF nets = <<>> THEN 0 ELSE Head(nets).total_transmitted + TotalTx(Tail(nets))

\* (sys.used_memory() as f32 / sys.total_memory() as f32) * 100.0
MemPercent(s) == Rat(s.used_memory * 100, s.total_memory)

\* let is_first_run = h.last_rx == 0 && h.last_tx == 0;
is_first_run(lrx, ltx) == lrx = 0 /\ ltx = 0

\* (bytes as f32 / 1024.0).max(0.0)
ToKiB(bytes) == F32Max(Rat(bytes, 1024), Zero)

\* -------------------------------------------------- gather functions ----
\* The em dash the program shows for a missing name, address or MAC.
Placeholder == "-"

\* (bytes / GIB * 100.0).round() / 100.0, the argument in MiB
GaugeValDecimal(mib) == Round2(mib, 1000)
GaugeVal(mib) == Round2(mib, GIB)

gather_home_data(s, cpu_hist) ==
  [cpu |-> [lower_val |-> Zero, upper_val |-> Rat(100, 1),
            curr_val |-> s.global_cpu_usage],
   memory |-> [lower_val |-> Zero, upper_val |-> GaugeVal(s.total_memory),
               curr_val |-> GaugeVal(s.used_memory)],
   proc_count |-> Len(s.processes),
   chart |-> cpu_hist]

gather_cpu_data(s, cpu_hist) ==
  [total_consumption |-> s.global_cpu_usage,
   cpu_consumption |-> [y_max |-> ChartMax(cpu_hist), series |-> cpu_hist]]

gather_memory_data(s, mem_hist) ==
  [total_consumption |-> IF s.total_memory > 0 THEN MemPercent(s) ELSE Zero,
   memory_usage |-> [y_max |-> ChartMax(mem_hist), series |-> mem_hist]]

\* for (name, data) in networks.iter() { if data.transmitted() > 0 ||
\* data.received() > 0 { ..; break; } }: index of the interface taken, 0 if
\* the loop ends without taking one.
RECURSIVE ActiveFrom(_, _)
ActiveFrom(nets, i) ==
  IF i > Len(nets) THEN 0
  ELSE IF nets[i].transmitted > 0 \/ nets[i].received > 0 THEN i
  ELSE ActiveFrom(nets, i + 1)

ActiveLast(nets) ==
  LET hit == {i \in 1..Len(nets) :
                nets[i].transmitted > 0 \/ nets[i].received > 0}
  IN IF hit = {} THEN 0 ELSE CHOOSE i \in hit : \A j \in hit : j <= i
ActiveIndex(nets) == ActiveFrom(nets, 1)

\* for iface in ifaces { if iface.name == name { match iface.addr {
\* V4(v4) => ipv4 = .., V6(v6) => ipv6 = .. } } }, for one family; acc is the
\* variable's value so far.
RECURSIVE ResolveFrom(_, _, _, _)
ResolveFrom(addrs, name, family, acc) ==
  IF addrs = <<>> THEN acc
  ELSE ResolveFrom(Tail(addrs), name, family,
                   IF Head(addrs).name = name /\ Head(addrs).family = family
                   THEN Head(addrs).ip ELSE acc)

ResolveIp(addrs, name, family) == ResolveFrom(addrs, name, family, Placeholder)

gather_network_data(nets, hist, total_tx, total_rx) ==
  LET a == ActiveIndex(nets)
      iface_name == IF a = 0 THEN Placeholder ELSE nets[a].name
      mac == IF a = 0 THEN Placeholder ELSE nets[a].mac
      up_vals == [i \in 1..Len(hist) |-> hist[i].upload]
      down_vals == [i \in 1..Len(hist) |-> hist[i].download]
      last_point == IF hist = <<>> THEN ZeroPoint ELSE hist[Len(hist)]
  IN [current_speed |-> last_point,
      usage |-> [upload |-> [max |-> ChartMax(up_vals), data |-> up_vals],
                 download |-> [max |-> ChartMax(down_vals),
                               data |-> down_vals]],
      active_info |-> [interface_name |-> iface_name,
                       ipv4 |-> ResolveIp(if_addrs, iface_name, "V4"),
                       ipv6 |-> ResolveIp(if_addrs, iface_name, "V6"),
                       mac |-> mac],
      active_stat |-> [total_sent |-> Round2(total_tx, 1),
                       total_received |-> Round2(total_rx, 1),
                       interfaces |-> Len(nets)],
      all_interfaces |->
        [i \in 1..Len(nets) |->
           [name |-> nets[i].name,
            ipv4 |-> ResolveIp(if_addrs, nets[i].name, "V4"),
            ipv6 |-> ResolveIp(if_addrs, nets[i].name, "V6"),
            mac |-> nets[i].mac,
            sent |-> Format2(nets[i].total_transmitted, MIB),
            received |-> Format2(nets[i].total_received, MIB)]]]

\* rows of (pid, name, cpu % to one decimal, MB to one decimal)
gather_process_table_data(s) ==
  [i \in 1..Len(s.processes) |->
     <<s.processes[i].pid, s.processes[i].name,
       Format1(s.processes[i].cpu_usage[1], s.processes[i].cpu_usage[2]),
       Format1(s.processes[i].memory, MIB)>>]

\* ------------------------------------------------------------ states ----
DefaultAddrs ==
  <<[name |-> "lo", family |-> "V4", ip |-> "127.0.0.1"],
    [name |-> "wlan0", family |-> "V4", ip |-> "192.168.1.7"],
    [name |-> "wlan0", family |-> "V6", ip |-> "fe80::7"]>>

\* System::new_all()
NewSystem(total) ==
  [global_cpu_usage |-> Zero, total_memory |-> total,
   used_memory |-> total \div 4, processes |-> Processes]

\* SystemHistory::new(size), the timer started, nothing published yet
InitCommon ==
  /\ cpu_history = Fill(Zero, HistSize)
  /\ memory_history = Fill(Zero, HistSize)
  /\ net_history = Fill(ZeroPoint, HistSize)
  /\ last_rx = 0
  /\ last_tx = 0
  /\ ui_alive = TRUE
  /\ timer_running = TRUE
  /\ homeData = <<>>
  /\ cpu_data = <<>>
  /\ memory_data = <<>>
  /\ network_data = <<>>
  /\ process_data = <<>>
  /\ ticks = 0
  /\ cpu_log = <<>>
  /\ mem_log = <<>>
  /\ net_pushes = 0
  /\ last_obs = [rx |-> 0, tx |-> 0, pushed |-> FALSE]

Init ==
  /\ InitCommon
  /\ \E total \in MemTotals : sys = NewSystem(total)
  /\ \E sample \in NetSamples : networks = NewNetworks(sample)
  /\ if_addrs = DefaultAddrs

\* ----------------------------------------------------------- actions ----
\* The timer closure when ui_handle.upgrade() is None: `None => return`.
TickStaleStops ==
  /\ timer_running
  /\ ticks < MaxTicks
  /\ ~ui_alive
  /\ ticks' = ticks + 1
  /\ timer_running' = FALSE
  /\ UNCHANGED <<hist_vars, ui_vars, sys, networks, if_addrs, ui_alive,
                 cpu_log, mem_log, net_pushes, last_obs>>

TickStale ==
  /\ timer_running
  /\ ticks < MaxTicks
  /\ ~ui_alive
  /\ ticks' = ticks + 1
  /\ UNCHANGED <<hist_vars, ui_vars, sys, networks, if_addrs, ui_alive,
                 timer_running, cpu_log, mem_log, net_pushes, last_obs>>

\* The timer closure when the window is still there.
TickRun ==
  /\ timer_running
  /\ ticks < MaxTicks
  /\ ui_alive
  /\ \E ss \in SysSamples, ns \in NetSamples :
       LET sys1 == refresh_sys(sys, ss)
           net1 == refresh_networks(networks, ns)
           cpu == sys1.global_cpu_usage
           mem == MemPercent(sys1)
           cpu_h == push_cpu(cpu_history, cpu)
           mem_h == push_mem(memory_history, mem)
           first == is_first_run(last_rx, last_tx)
           total_rx == TotalRx(net1)
           total_tx == TotalTx(net1)
           down == ToKiB(saturating_sub(total_rx, last_rx))
           up == ToKiB(saturating_sub(total_tx, last_tx))
           net_h == IF ~first THEN push_net(net_history, up, down)
                    ELSE net_history
       IN /\ sys' = sys1
          /\ networks' = net1
          /\ cpu_history' = cpu_h
          /\ memory_history' = mem_h
          /\ homeData' = <<gather_home_data(sys1, cpu_h)>>
          /\ cpu_data' = <<gather_cpu_data(sys1, cpu_h)>>
          /\ memory_data' = <<gather_memory_data(sys1, mem_h)>>
          /\ last_rx' = total_rx
          /\ last_tx' = total_tx
          /\ net_history' = net_h
          /\ network_data' =
               <<gather_network_data(net1, net_h, total_tx, total_rx)>>
          /\ process_data' = <<gather_process_table_data(sys1)>>
          /\ cpu_log' = Append(cpu_log, cpu)
          /\ mem_log' = Append(mem_log, mem)
          /\ net_pushes' = IF ~first THEN net_pushes + 1 ELSE net_pushes
          /\ last_obs' = [rx |-> last_rx, tx |-> last_tx, pushed |-> ~first]
  /\ ticks' = ticks + 1
  /\ UNCHANGED <<if_addrs, ui_alive, timer_running>>

Tick == TickStale \/ TickRun

\* The window goes away: from now on ui_handle.upgrade() returns None.
CloseWindow ==
  /\ ui_alive
  /\ ui_alive' = FALSE
  /\ UNCHANGED <<hist_vars, ui_vars, sys, networks, if_addrs, timer_running,
                 ticks, cpu_log, mem_log, net_pushes, last_obs>>

Next == Tick \/ CloseWindow

Spec == Init /\ [][Next]_vars

\* ------------------------------------ gather_network_data on its own ----
\* One interface as Networks can report it: received <= total_received and
\* transmitted <= total_transmitted.
IfaceCounters ==
  { [received |-> 0, transmitted |-> 0,
     total_received |-> 0, total_transmitted |-> 0],
    [received |-> 0, transmitted |-> 0,
     total_received |-> 500, total_transmitted |-> 10],
    [received |-> 500, transmitted |-> 10,
     total_received |-> 500, total_transmitted |-> 10],
    [received |-> 0, transmitted |-> 10,
     total_received |-> 1500, total_transmitted |-> 250] }

NetworksWith(c) ==
  [i \in 1..Len(IfNames) |->
     [name |-> IfNames[i], mac |-> Mac(IfNames[i]),
      received |-> c[i].received, transmitted |-> c[i].transmitted,
      total_received |-> c[i].total_received,
      total_transmitted |-> c[i].total_transmitted]]

\* The records get_if_addrs() can return for the two interfaces.
AddrRecords ==
  [name : {"eth0", "wlan0"}, family : {"V4"}, ip : {"10.0.0.1", "10.0.0.2"}]
  \cup
  [name : {"eth0", "wlan0"}, family : {"V6"}, ip : {"fe80::1", "2001:db8::1"}]

AddrLists ==
  UNION {[1..n -> AddrRecords] : n \in 0..MaxAddrs}

InitNet ==
  /\ InitCommon
  /\ sys = NewSystem(8192)
  /\ \E c \in [1..Len(IfNames) -> IfaceCounters] : networks = NetworksWith(c)
  /\ if_addrs \in AddrLists

\* ui.set_network_data(gather_network_data(&networks, &h.net_history,
\* total_tx, total_rx)) on the state as it stands
GatherNetwork ==
  /\ network_data = <<>>
  /\ network_data' = <<gather_network_data(networks, net_history,
                                           TotalTx(networks),
                                           TotalRx(networks))>>
  /\ UNCHANGED <<hist_vars, sys, networks, if_addrs, ui_alive, timer_running,
                 homeData, cpu_data, memory_data, process_data, ticks,
                 cpu_log, mem_log, net_pushes, last_obs>>

NextNet == GatherNetwork

SpecNet == InitNet /\ [][NextNet]_vars

\* -------------------------------------------------------- properties ----
\* A step of the timer closure that got past ui_handle.upgrade().
FullTickStep == ticks' = ticks + 1 /\ ui_alive

\* A step of the timer closure that found the window gone.
StaleTickStep == ticks' = ticks + 1 /\ ~ui_alive

Max0(x) == IF x > 0 THEN x ELSE 0

\* The interfaces with traffic since the previous refresh / since the start.
RecentlyActive(nets) ==
  {i \in 1..Len(nets) : nets[i].transmitted > 0 \/ nets[i].received > 0}
EverActive(nets) ==
  {i \in 1..Len(nets) :
     nets[i].total_transmitted # 0 \/ nets[i].total_received # 0}
MinOf(S) == CHOOSE i \in S : \A j \in S : i <= j

\* The records of if_addrs for one interface and family, by position.
Matches(name, family) ==
  {k \in 1..Len(if_addrs) :
     if_addrs[k].name = name /\ if_addrs[k].family = family}
FirstMatchIp(name, family) ==
  IF Matches(name, family) = {} THEN Placeholder
  ELSE if_addrs[MinOf(Matches(name, family))].ip

\* C1: each of the three history buffers has length exactly HistSize in
\* every reachable state, and before the first tick they hold zeros /
\* default points only.
C1_LengthFixed ==
  /\ Len(cpu_history) = HistSize
  /\ Len(memory_history) = HistSize
  /\ Len(net_history) = HistSize
  /\ ticks = 0 =>
       /\ \A i \in 1..HistSize : cpu_history[i] = Zero
       /\ \A i \in 1..HistSize : memory_history[i] = Zero
       /\ \A i \in 1..HistSize : net_history[i] = ZeroPoint

C1_Witness ==
  /\ Len(cpu_log) >= 2
  /\ net_pushes >= 1
  /\ Len(cpu_history) = HistSize
  /\ Len(net_history) = HistSize

\* C2: a push is exactly FIFO: after a tick's push of v the newest slot
\* holds v and every other slot i holds what slot i+1 held before, for the
\* CPU and the memory buffer on every full tick and for the network buffer
\* on every tick that pushes a network point.
C2_PushFifo ==
  [][FullTickStep =>
       /\ cpu_history'[HistSize] = sys'.global_cpu_usage
       /\ \A i \in 1..(HistSize - 1) : cpu_history'[i] = cpu_history[i + 1]
       /\ memory_history'[HistSize]
            = Rat(sys'.used_memory * 100, sys'.total_memory)
       /\ \A i \in 1..(HistSize - 1) :
            memory_history'[i] = memory_history[i + 1]
       /\ net_pushes' # net_pushes =>
            \A i \in 1..(HistSize - 1) : net_history'[i] = net_history[i + 1]
       /\ net_pushes' = net_pushes => net_history' = net_history]_vars

C2_Witness ==
  /\ Len(cpu_log) >= 2
  /\ cpu_history[HistSize] = cpu_log[Len(cpu_log)]
  /\ cpu_history[HistSize - 1] = cpu_log[Len(cpu_log) - 1]
  /\ cpu_history[HistSize] # cpu_history[HistSize - 1]
  /\ net_pushes >= 2
  /\ net_history[HistSize] # net_history[HistSize - 1]

\* C3: the first full tick pushes no network point and every later full
\* tick pushes exactly one, whatever the stored totals are: the number of
\* network points pushed is the number of full ticks minus one.
C3_FirstByFlag ==
  net_pushes = IF Len(mem_log) = 0 THEN 0 ELSE Len(mem_log) - 1

C5_HistoryIsTail ==
  /\ Len(cpu_log) = Len(mem_log)
  /\ \A i \in 1..HistSize :
       LET k == Len(mem_log) - HistSize + i
       IN /\ memory_history[i] = IF k >= 1 THEN mem_log[k] ELSE Zero
          /\ cpu_history[i] = IF k >= 1 THEN cpu_log[k] ELSE Zero

C5_Witness ==
  /\ Len(mem_log) = 3
  /\ mem_log = <<Rat(25, 1), Rat(50, 1), Rat(25, 1)>>
  /\ memory_history[HistSize] = Rat(25, 1)
  /\ memory_history[HistSize - 1] = Rat(50, 1)
  /\ memory_history[HistSize - 2] = Rat(25, 1)

\* C6: a tick that finds the window gone changes nothing of SystemHistory,
\* publishes nothing and leaves the timer running.
C6_StaleTickNoOp ==
  [][StaleTickStep =>
       /\ UNCHANGED hist_vars
       /\ UNCHANGED ui_vars
       /\ UNCHANGED <<sys, networks>>
       /\ timer_running']_vars

C6_Witness ==
  /\ ~ui_alive
  /\ Len(mem_log) >= 1
  /\ ticks >= Len(mem_log) + 2
  /\ timer_running
  /\ cpu_data # <<>>

\* C7: every published chart has y-axis maximum max(1, largest value of
\* its series), and its series is the history buffer as it stands.
IsChartMax(m, series) ==
  /\ RLeq(One, m)
  /\ \A i \in 1..Len(series) : RLeq(series[i], m)
  /\ m = One \/ \E i \in 1..Len(series) : m = series[i]

C7_ChartMax ==
  /\ cpu_data # <<>> =>
       /\ cpu_data[1].cpu_consumption.series = cpu_history
       /\ IsChartMax(cpu_data[1].cpu_consumption.y_max, cpu_history)
  /\ memory_data # <<>> =>
       /\ memory_data[1].memory_usage.series = memory_history
       /\ IsChartMax(memory_data[1].memory_usage.y_max, memory_history)
  /\ network_data # <<>> =>
       LET u == network_data[1].usage.upload
           d == network_data[1].usage.download
       IN /\ Len(u.data) = HistSize
          /\ Len(d.data) = HistSize
          /\ \A i \in 1..HistSize :
               /\ u.data[i] = net_history[i].upload
               /\ d.data[i] = net_history[i].download
          /\ IsChartMax(u.max, u.data)
          /\ IsChartMax(d.max, d.data)

\* an all-zero series is published with maximum 1, next to a series
\* published with its own largest value
C7_Witness ==
  /\ network_data # <<>>
  /\ cpu_data # <<>>
  /\ \A i \in 1..HistSize : net_history[i].upload = Zero
  /\ network_data[1].usage.upload.max = One
  /\ cpu_history[HistSize] = Rat(50, 1)
  /\ cpu_data[1].cpu_consumption.y_max = Rat(50, 1)

\* C8 as stated: the active interface is the first one whose cumulative
\* transmitted or received byte count is nonzero, the placeholder if none.
C8_FirstCumulative ==
  network_data # <<>> =>
    LET a == network_data[1].active_info
        hit == EverActive(networks)
    IN IF hit = {}
       THEN a.interface_name = Placeholder /\ a.mac = Placeholder
            /\ a.ipv4 = Placeholder /\ a.ipv6 = Placeholder
       ELSE a.interface_name = networks[MinOf(hit)].name

\* C8 amended: the active interface is the first one, in enumeration
\* order, that transmitted or received bytes since the previous refresh;
\* when there is none, name, IPv4, IPv6 and MAC are all the placeholder.
C8_FirstRecent ==
  network_data # <<>> =>
    LET a == network_data[1].active_info
        hit == RecentlyActive(networks)
    IN IF hit = {}
       THEN a.interface_name = Placeholder /\ a.mac = Placeholder
            /\ a.ipv4 = Placeholder /\ a.ipv6 = Placeholder
       ELSE /\ a.interface_name = networks[MinOf(hit)].name
            /\ a.mac = networks[MinOf(hit)].mac

\* the first interface has cumulative traffic but none since the last
\* refresh, and the second one is shown
C8_Witness ==
  /\ network_data # <<>>
  /\ networks[1].total_received > 0
  /\ networks[1].received = 0 /\ networks[1].transmitted = 0
  /\ networks[2].received > 0
  /\ network_data[1].active_info.interface_name = "wlan0"

\* C9 as stated: with 8 GiB installed the Home memory gauge's upper_val is
\* 100.00 within 0.01.
C9_UpperIs100 ==
  (homeData # <<>> /\ sys.total_memory = 8 * GIB) =>
    LET u == homeData[1].memory.upper_val
    IN Abs(u[1] * 100 - 100 * 100 * u[2]) <= u[2]

\* C9 amended: upper_val is total memory in GiB rounded to 2 decimals,
\* which is 8.00 for 8 GiB, and curr_val is used memory converted and
\* rounded the same way.
IsGiB2(v, mib) ==
  /\ (v[1] * 100) % v[2] = 0
  /\ 2 * Abs(((v[1] * 100) \div v[2]) * GIB - mib * 100) <= GIB

C9_UpperIsGiB ==
  homeData # <<>> =>
    /\ IsGiB2(homeData[1].memory.upper_val, sys.total_memory)
    /\ IsGiB2(homeData[1].memory.curr_val, sys.used_memory)
    /\ sys.total_memory = 8 * GIB => homeData[1].memory.upper_val = <<8, 1>>

C9_Witness ==
  /\ homeData # <<>>
  /\ sys.total_memory = 8 * GIB
  /\ homeData[1].memory.upper_val = <<8, 1>>
  /\ homeData[1].memory.curr_val = <<2, 1>>

\* C10: the IPv4 / IPv6 address shown for an interface, in the active
\* interface panel and in the per-interface table, is the first record of
\* get_if_addrs() with that interface name and family, the placeholder when
\* there is none.
C10_FirstMatchWins ==
  network_data # <<>> =>
    LET a == network_data[1].active_info
        rows == network_data[1].all_interfaces
    IN /\ a.ipv4 = FirstMatchIp(a.interface_name, "V4")
       /\ a.ipv6 = FirstMatchIp(a.interface_name, "V6")
       /\ \A i \in 1..Len(rows) :
            /\ rows[i].ipv4 = FirstMatchIp(rows[i].name, "V4")
            /\ rows[i].ipv6 = FirstMatchIp(rows[i].name, "V6")

====
